---- MODULE Spec2Model ----
(***************************************************************************)
(* A model of CrosswordCreator (src/generate.py): the crossword CSP solver *)
(* with node consistency, AC-3 and heuristic backtracking search.          *)
(*                                                                         *)
(* Words are sequences of letters.  Python indexes from 0 and TLA+ from 1, *)
(* so word[k] of the source is word[k + 1] here; overlap offsets keep the  *)
(* source's 0-based values.  A Python value that may be None is modelled   *)
(* as a sequence: None is <<>>, an overlap (ox, oy) is <<ox, oy>>, any     *)
(* other present value v is <<v>>.                                         *)
(***************************************************************************)
EXTENDS Integers, Sequences, FiniteSets, TLC

(* Bounds of the model. *)
MaxSlots == 3
MaxLen == 2
MaxVocab == 3
Letters == {"a", "b"}

None == <<>>
Some(v) == <<v>>

VARIABLES
  crossword,        \* self.crossword: variables, their length, overlaps, words
  domains,          \* self.domains: slot -> set of words
  assignment,       \* the dict handed through backtrack, in insertion order
  pc,               \* the position of the running call
  arcsArg,          \* ac3's parameter `arcs` as the caller passed it
  arcs,             \* ac3's worklist
  arc,              \* the (x, y) last handed to revise
  inference_result, \* what the last ac3 call returned
  stack,            \* the frames of the backtrack calls in progress
  retval,           \* what the last backtrack call returned
  result,           \* what solve returned
  ret,              \* what a function called on its own returned; in solve,
                    \* history: what the ac3() call of line 93 returned
  domains0          \* history: the domains when solve called backtrack

vars == <<crossword, domains, assignment, pc, arcsArg, arcs, arc,
          inference_result, stack, retval, result, ret, domains0>>

(***************************************************************************)
(* The Crossword object (crossword.py, not part of the sources at hand):   *)
(* slots, their lengths, the symmetric overlaps and the derived neighbors. *)
(***************************************************************************)
AllWords == UNION {[1..l -> Letters] : l \in 1..MaxLen}

Vocabularies == {V \in SUBSET AllWords : Cardinality(V) <= MaxVocab}

Pairs(n) == {p \in (1..n) \X (1..n) : p[1] # p[2]}

UPairs(n) == {p \in (1..n) \X (1..n) : p[1] < p[2]}

OverlapValues == {None} \cup ((0..(MaxLen - 1)) \X (0..(MaxLen - 1)))

Flip(o) == IF o = None THEN None ELSE <<o[2], o[1]>>

Symmetric(n, ov) ==
  [p \in Pairs(n) |-> IF p[1] < p[2] THEN ov[p] ELSE Flip(ov[<<p[2], p[1]>>])]

\* Overlaps come from grid geometry: offsets lie inside both slots, a cell of
\* a slot is crossed by at most one other slot, and only an across slot and a
\* down slot can cross.
WellFormed(n, len, ov) ==
  /\ \A p \in Pairs(n) :
       ov[p] # None => (ov[p][1] < len[p[1]] /\ ov[p][2] < len[p[2]])
  /\ \A x \in 1..n : \A y, z \in (1..n) \ {x} :
       (y # z /\ ov[<<x, y>>] # None /\ ov[<<x, z>>] # None)
         => ov[<<x, y>>][1] # ov[<<x, z>>][1]
  /\ \E dir \in [1..n -> {"across", "down"}] :
       \A p \in Pairs(n) : ov[p] # None => dir[p[1]] # dir[p[2]]

Structures ==
  UNION {
    {[variables |-> 1..n, length |-> len, overlaps |-> Symmetric(n, ov)] :
       <<len, ov>> \in {lo \in [1..n -> 1..MaxLen] \X [UPairs(n) -> OverlapValues] :
                          WellFormed(n, lo[1], Symmetric(n, lo[2]))}}
    : n \in 0..MaxSlots}

Crosswords ==
  {[variables |-> s.variables, length |-> s.length, overlaps |-> s.overlaps,
    words |-> V] : s \in Structures, V \in Vocabularies}

neighbors(var) ==
  {v \in crossword.variables \ {var} : crossword.overlaps[<<v, var>>] # None}

\* The sequences that list the set S once each: the orders in which a Python
\* set may be iterated.
Orders(S) ==
  {s \in [1..Cardinality(S) -> S] : \A i, j \in 1..Cardinality(S) : i # j => s[i] # s[j]}

\* self.domains.keys(): the dict's insertion order.  Slots are numbered in
\* that order (Structures holds every numbering of a grid).
RECURSIVE Keys(_)
Keys(n) == IF n = 0 THEN <<>> ELSE Append(Keys(n - 1), n)

DomainKeys == Keys(Cardinality(crossword.variables))

(***************************************************************************)
(* __init__                                                                *)
(***************************************************************************)
InitDomains(cw) == [var \in cw.variables |-> cw.words]

(***************************************************************************)
(* enforce_node_consistency                                                *)
(***************************************************************************)
\* Mutant: only the words longer than the slot are removed.
RemoveWrongLength_OnlyLonger(dom, todo, length) ==
  dom \ {w \in todo : Len(w) > length}

RECURSIVE RemoveWrongLength(_, _, _)
RemoveWrongLength(dom, todo, length) ==
  IF todo = {} THEN dom
  ELSE LET node == CHOOSE w \in todo : TRUE
       IN  RemoveWrongLength(IF Len(node) # length THEN dom \ {node} ELSE dom,
                             todo \ {node}, length)

enforce_node_consistency(doms) ==
  [v \in DOMAIN doms |-> RemoveWrongLength(doms[v], doms[v], crossword.length[v])]

(***************************************************************************)
(* revise                                                                  *)
(***************************************************************************)
\* Mutant: any word of y counts as a match.
Found_AnyWord(node, domains_y, overlap) == domains_y # {}

\* Mutant: a word of x is kept only if it matches every word of y.
Found_EveryWord(node, domains_y, overlap) ==
  \A node2 \in domains_y : node[overlap[1] + 1] = node2[overlap[2] + 1]

Found(node, domains_y, overlap) ==
  \E node2 \in domains_y : node[overlap[1] + 1] = node2[overlap[2] + 1]

RECURSIVE ReviseLoop(_, _, _, _, _)
ReviseLoop(dom_x, todo, domains_y, overlap, revision) ==
  IF todo = {} THEN [revision |-> revision, domain |-> dom_x]
  ELSE LET node == CHOOSE w \in todo : TRUE
       IN  IF Found(node, domains_y, overlap)
           THEN ReviseLoop(dom_x, todo \ {node}, domains_y, overlap, revision)
           ELSE ReviseLoop(dom_x \ {node}, todo \ {node}, domains_y, overlap, TRUE)

\* [revision |-> the value returned, domains |-> self.domains afterwards]
revise(doms, x, y) ==
  LET overlap == crossword.overlaps[<<x, y>>]
  IN  IF overlap = None
      THEN [revision |-> FALSE, domains |-> doms]
      ELSE LET r == ReviseLoop(doms[x], doms[x], doms[y], overlap, FALSE)
           IN  [revision |-> r.revision, domains |-> [doms EXCEPT ![x] = r.domain]]

(***************************************************************************)
(* ac3                                                                     *)
(***************************************************************************)
\* The list comprehension of line 156: the keys in dict order, each with its
\* neighbors in the order the neighbor set is iterated.
RECURSIVE ArcListsFrom(_)
ArcListsFrom(k) ==
  IF k > Len(DomainKeys) THEN {<<>>}
  ELSE {[i \in 1..Len(order) |-> <<DomainKeys[k], order[i]>>] \o rest :
          order \in Orders(neighbors(DomainKeys[k])), rest \in ArcListsFrom(k + 1)}

\* `not arcs`: true of None and of the empty list alike.
NotArcs(a) == a = None \/ Len(a[1]) = 0

\* Mutant: a call without a list starts from the empty worklist.
InitialArcs_NoneIsEmpty(a) == IF a = None THEN {<<>>} ELSE {a[1]}

\* The worklists ac3 may start from, given its parameter.
InitialArcs(a) == IF NotArcs(a) THEN ArcListsFrom(1) ELSE {a[1]}

\* Mutant: arcs[0] read without removing it.
Rest_NoPop(list) == list

\* The worklist after arcs.pop(0) (line 160).
Rest(list) == Tail(list)

\* Mutant: nothing is put back on the worklist.
Requeued_Nothing(var1, var2) == {<<>>}

\* The arcs appended after revise(var1, var2) changed var1's domain.
Requeued(var1, var2) ==
  {[i \in 1..Len(order) |-> <<order[i], var1>>] :
     order \in Orders(neighbors(var1) \ {var2})}

(***************************************************************************)
(* The assignment dict, kept in insertion order as <<variable, word>>.     *)
(***************************************************************************)
AssignedKeys(asg) == {asg[i][1] : i \in DOMAIN asg}

Get(asg, var) == asg[CHOOSE i \in DOMAIN asg : asg[i][1] = var][2]

\* assignment[var] = value: a present key keeps its place.
Put(asg, var, value) ==
  IF var \in AssignedKeys(asg)
  THEN [i \in DOMAIN asg |-> IF asg[i][1] = var THEN <<var, value>> ELSE asg[i]]
  ELSE Append(asg, <<var, value>>)

\* del assignment[var]
Del(asg, var) == SelectSeq(asg, LAMBDA e : e[1] # var)

assignment_complete(asg) == Len(asg) = Cardinality(DOMAIN domains)

(***************************************************************************)
(* consistent: "True", "False", or "IndexError" when indexing a word past  *)
(* its end raises.  The result is a set: the neighbors of a slot are       *)
(* visited in the order their set is iterated.                             *)
(***************************************************************************)
RECURSIVE NeighborLoop(_, _, _, _, _)
NeighborLoop(asg, variable, value, order, k) ==
  IF k > Len(order) THEN "ok"
  ELSE LET neighbor == order[k]
       IN  IF neighbor \in AssignedKeys(asg)
           THEN LET neighbor_value == Get(asg, neighbor)
                    overlap == crossword.overlaps[<<variable, neighbor>>]
                IN  IF overlap[2] >= Len(neighbor_value) THEN "IndexError"
                    ELSE IF neighbor_value[overlap[2] + 1] # value[overlap[1] + 1]
                    THEN "False"
                    ELSE NeighborLoop(asg, variable, value, order, k + 1)
           ELSE NeighborLoop(asg, variable, value, order, k + 1)

RECURSIVE ConsistentLoop(_, _, _)
ConsistentLoop(asg, i, used_values) ==
  IF i > Len(asg) THEN {"True"}
  ELSE LET variable == asg[i][1]
           value == asg[i][2]
       IN  IF value \in used_values THEN {"False"}
           ELSE IF Len(value) # crossword.length[variable] THEN {"False"}
           ELSE LET outs == {NeighborLoop(asg, variable, value, order, 1) :
                               order \in Orders(neighbors(variable))}
                IN  (outs \ {"ok"}) \cup
                    (IF "ok" \in outs
                     THEN ConsistentLoop(asg, i + 1, used_values \cup {value})
                     ELSE {})

\* Mutant: `return True` inside the for loop, after the first item.
consistent_FirstItemOnly(asg) ==
  IF Len(asg) = 0 THEN {"True"}
  ELSE LET variable == asg[1][1]
           value == asg[1][2]
       IN  IF Len(value) # crossword.length[variable] THEN {"False"}
           ELSE LET outs == {NeighborLoop(asg, variable, value, order, 1) :
                               order \in Orders(neighbors(variable))}
                IN  (outs \ {"ok"}) \cup (IF "ok" \in outs THEN {"True"} ELSE {})

consistent(asg) == ConsistentLoop(asg, 1, {})

(***************************************************************************)
(* order_domain_values and select_unassigned_variable                      *)
(***************************************************************************)
\* `value2 not in assignment.keys()`: value2 is a word and the keys are
\* slots, so a word is never among them.
WordInKeys(value2, asg) == FALSE

\* The words in the neighbor's domain counted against `value` (line 224).
Conflicts(doms, var, value, neighbor, asg) ==
  LET intersection == crossword.overlaps[<<var, neighbor>>]
  IN  Cardinality({value2 \in doms[neighbor] :
                     /\ value[intersection[1] + 1] # value2[intersection[2] + 1]
                     /\ ~WordInKeys(value2, asg)})

RECURSIVE CounterLoop(_, _, _, _, _)
CounterLoop(doms, var, value, todo, asg) ==
  IF todo = {} THEN 0
  ELSE LET neighbor == CHOOSE n \in todo : TRUE
       IN  Conflicts(doms, var, value, neighbor, asg)
             + CounterLoop(doms, var, value, todo \ {neighbor}, asg)

Counter(doms, var, value, asg) == CounterLoop(doms, var, value, neighbors(var), asg)

\* The lists order_domain_values may return: the domain in the order the set
\* is iterated, stably sorted by the counter.
order_domain_values(doms, var, asg) ==
  {s \in Orders(doms[var]) :
     \A i, j \in DOMAIN s :
       i < j => Counter(doms, var, s[i], asg) <= Counter(doms, var, s[j], asg)}

\* Mutant: the sort key is the domain size alone.
KeyLess_SizeOnly(doms, u, v) == Cardinality(doms[u]) < Cardinality(doms[v])

\* The sort key of line 248, compared as Python compares tuples.
KeyLess(doms, u, v) ==
  \/ Cardinality(doms[u]) < Cardinality(doms[v])
  \/ /\ Cardinality(doms[u]) = Cardinality(doms[v])
     /\ Cardinality(neighbors(u)) > Cardinality(neighbors(v))

\* Mutant: slots whose domain is empty are left out of the unassigned list.
select_SkipsEmpty(doms, asg) ==
  LET unassigned == {v \in DOMAIN doms : v \notin AssignedKeys(asg) /\ doms[v] # {}}
  IN  IF unassigned = {} THEN None
      ELSE Some(CHOOSE v \in unassigned :
                  \A u \in unassigned \ {v} :
                    KeyLess(doms, v, u) \/ (~KeyLess(doms, u, v) /\ v < u))

\* The first of the stably sorted unassigned slots: the least key, and among
\* equal keys the earliest in dict order.
select_unassigned_variable(doms, asg) ==
  LET unassigned == {v \in DOMAIN doms : v \notin AssignedKeys(asg)}
  IN  IF unassigned = {} THEN None
      ELSE Some(CHOOSE v \in unassigned :
                  \A u \in unassigned \ {v} :
                    KeyLess(doms, v, u) \/ (~KeyLess(doms, u, v) /\ v < u))

(***************************************************************************)
(* solve: one action per step of solve, ac3 and backtrack.                 *)
(***************************************************************************)
Init ==
  /\ crossword \in Crosswords
  /\ domains = InitDomains(crossword)
  /\ assignment = <<>>
  /\ pc = "solve"
  /\ arcsArg = None
  /\ arcs = <<>>
  /\ arc = None
  /\ inference_result = FALSE
  /\ stack = <<>>
  /\ retval = None
  /\ result = None
  /\ ret = None
  /\ domains0 = InitDomains(crossword)

\* solve, lines 92-93: enforce_node_consistency(), then ac3() with no argument.
SolveBegin ==
  /\ pc = "solve"
  /\ domains' = enforce_node_consistency(domains)
  /\ arcsArg' = None
  /\ pc' = "ac3_call"
  /\ UNCHANGED <<crossword, assignment, arcs, arc, inference_result, stack,
                 retval, result, ret, domains0>>

\* ac3, lines 154-156.
Ac3Begin ==
  /\ pc = "ac3_call"
  /\ arcs' \in InitialArcs(arcsArg)
  /\ pc' = "ac3_loop"
  /\ UNCHANGED <<crossword, domains, assignment, arcsArg, arc, inference_result,
                 stack, retval, result, ret, domains0>>

\* ac3, lines 159-168: one turn of the while loop.
Ac3Iterate ==
  /\ pc = "ac3_loop"
  /\ arcs # <<>>
  /\ LET var1 == Head(arcs)[1]
         var2 == Head(arcs)[2]
         r == revise(domains, var1, var2)
     IN  /\ arc' = Head(arcs)
         /\ domains' = r.domains
         /\ IF r.revision
            THEN IF r.domains[var1] = {}
                 THEN /\ arcs' = Rest(arcs)
                      /\ inference_result' = FALSE
                      /\ pc' = "ac3_return"
                 ELSE /\ \E more \in Requeued(var1, var2) : arcs' = Rest(arcs) \o more
                      /\ UNCHANGED <<inference_result, pc>>
            ELSE /\ arcs' = Rest(arcs)
                 /\ UNCHANGED <<inference_result, pc>>
  /\ UNCHANGED <<crossword, assignment, arcsArg, stack, retval, result, ret, domains0>>

\* ac3, line 170.
Ac3Exit ==
  /\ pc = "ac3_loop"
  /\ arcs = <<>>
  /\ inference_result' = TRUE
  /\ pc' = "ac3_return"
  /\ UNCHANGED <<crossword, domains, assignment, arcsArg, arcs, arc, stack,
                 retval, result, ret, domains0>>

\* solve, line 94: the result of ac3 is dropped and backtrack(dict()) called.
\* The dropped result and the domains are recorded as history.
SolveBacktrack ==
  /\ pc = "ac3_return"
  /\ stack = <<>>
  /\ assignment' = <<>>
  /\ domains0' = domains
  /\ ret' = Some(inference_result)
  /\ pc' = "backtrack_call"
  /\ UNCHANGED <<crossword, domains, arcsArg, arcs, arc, inference_result, stack,
                 retval, result>>

\* A frame of stack is one call of backtrack inside its for loop: the selected
\* slot, the ordered values and the position of the loop.  Two fields record
\* history and are read by no action: `entry` is the assignment as it was when
\* the call was entered, `before` the domains as they were before the ac3 call
\* made for the latest candidate (at entry: the domains at entry).
Top == stack[Len(stack)]

Pop == SubSeq(stack, 1, Len(stack) - 1)

Advance == [stack EXCEPT ![Len(stack)].idx = @ + 1]

\* backtrack, lines 261-269: up to the start of the for loop.
BacktrackEnter ==
  /\ pc = "backtrack_call"
  /\ LET variable == select_unassigned_variable(domains, assignment)
     IN  IF assignment_complete(assignment) \/ variable = None
         THEN /\ retval' = Some(assignment)
              /\ pc' = "backtrack_return"
              /\ UNCHANGED stack
         ELSE /\ \E values \in order_domain_values(domains, variable[1], assignment) :
                   stack' = Append(stack, [variable |-> variable[1],
                                           values |-> values, idx |-> 1,
                                           entry |-> assignment,
                                           before |-> domains])
              /\ pc' = "backtrack_loop"
              /\ UNCHANGED retval
  /\ UNCHANGED <<crossword, domains, assignment, arcsArg, arcs, arc,
                 inference_result, result, ret, domains0>>

\* backtrack, lines 269-273 and 279-282: the next value of the for loop, up to
\* the call of ac3, or the return of None when the values are used up.
BacktrackLoop ==
  /\ pc = "backtrack_loop"
  /\ IF Top.idx > Len(Top.values)
     THEN /\ stack' = Pop
          /\ retval' = None
          /\ pc' = "backtrack_return"
          /\ UNCHANGED <<assignment, arcsArg>>
     ELSE LET variable == Top.variable
              asg == Put(assignment, variable, Top.values[Top.idx])
          IN  \E verdict \in consistent(asg) :
                IF verdict = "True"
                THEN /\ assignment' = asg
                     /\ \E order \in Orders(neighbors(variable)) :
                          arcsArg' = Some([i \in 1..Len(order) |-> <<order[i], variable>>])
                     /\ pc' = "ac3_call"
                     /\ stack' = [stack EXCEPT ![Len(stack)].before = domains]
                     /\ UNCHANGED retval
                ELSE IF verdict = "False"
                THEN /\ assignment' = Del(asg, variable)
                     /\ stack' = Advance
                     /\ UNCHANGED <<arcsArg, pc, retval>>
                ELSE /\ assignment' = asg
                     /\ pc' = "raised"
                     /\ UNCHANGED <<arcsArg, stack, retval>>
  /\ UNCHANGED <<crossword, domains, arcs, arc, inference_result, result, ret, domains0>>

\* backtrack, lines 273-276: ac3 returned to the for loop.
BacktrackInferred ==
  /\ pc = "ac3_return"
  /\ stack # <<>>
  /\ IF inference_result
     THEN /\ pc' = "backtrack_call"
          /\ UNCHANGED stack
     ELSE /\ stack' = Advance
          /\ pc' = "backtrack_loop"
  /\ UNCHANGED <<crossword, domains, assignment, arcsArg, arcs, arc,
                 inference_result, retval, result, ret, domains0>>

\* backtrack, lines 276-278: the recursive call returned to the for loop.
BacktrackResume ==
  /\ pc = "backtrack_return"
  /\ stack # <<>>
  /\ IF retval # None
     THEN /\ stack' = Pop
          /\ UNCHANGED pc
     ELSE /\ stack' = Advance
          /\ pc' = "backtrack_loop"
  /\ UNCHANGED <<crossword, domains, assignment, arcsArg, arcs, arc,
                 inference_result, retval, result, ret, domains0>>

\* solve, line 94: backtrack(dict()) returned.
SolveReturn ==
  /\ pc = "backtrack_return"
  /\ stack = <<>>
  /\ result' = retval
  /\ pc' = "done"
  /\ UNCHANGED <<crossword, domains, assignment, arcsArg, arcs, arc,
                 inference_result, stack, retval, ret, domains0>>

Next ==
  \/ SolveBegin
  \/ Ac3Begin
  \/ Ac3Iterate
  \/ Ac3Exit
  \/ SolveBacktrack
  \/ BacktrackEnter
  \/ BacktrackLoop
  \/ BacktrackInferred
  \/ BacktrackResume
  \/ SolveReturn

Spec == Init /\ [][Next]_vars

(***************************************************************************)
(* What solve is to compute: the complete consistent assignments.          *)
(***************************************************************************)
\* asg (a sequence of <<slot, word>>) has exactly one entry per slot, its
\* words are pairwise distinct and of their slots' lengths, and neighboring
\* slots agree at their overlap offsets.
CompleteConsistent(asg) ==
  /\ Len(asg) = Cardinality(crossword.variables)
  /\ AssignedKeys(asg) = crossword.variables
  /\ \A i, j \in DOMAIN asg : i # j => (asg[i][1] # asg[j][1] /\ asg[i][2] # asg[j][2])
  /\ \A i \in DOMAIN asg : Len(asg[i][2]) = crossword.length[asg[i][1]]
  /\ \A i, j \in DOMAIN asg :
       LET o == IF i = j THEN None ELSE crossword.overlaps[<<asg[i][1], asg[j][1]>>]
       IN  o # None => asg[i][2][o[1] + 1] = asg[j][2][o[2] + 1]

\* The solutions of the problem, as functions from slots to vocabulary words.
Solutions ==
  {f \in [crossword.variables -> crossword.words] :
     /\ \A x, y \in crossword.variables : x # y => f[x] # f[y]
     /\ \A x \in crossword.variables : Len(f[x]) = crossword.length[x]
     /\ \A x, y \in crossword.variables :
          LET o == IF x = y THEN None ELSE crossword.overlaps[<<x, y>>]
          IN  o # None => f[x][o[1] + 1] = f[y][o[2] + 1]}

\* C1: whenever solve returns an assignment, it has exactly one entry per
\* slot, pairwise distinct words of the slots' lengths, and neighboring slots
\* agree at their overlap offsets.
C1_Soundness == (pc = "done" /\ result # None) => CompleteConsistent(result[1])

\* C1 witness: solve returned an assignment of three slots, two of them crossing.
C1_Witness ==
  /\ pc = "done"
  /\ result # None
  /\ Len(result[1]) = 3
  /\ \E x \in crossword.variables : neighbors(x) # {}

\* C2: whenever a complete consistent assignment exists, solve returns an
\* assignment and not None.
C2_Completeness == (pc = "done" /\ Solutions # {}) => result # None

Fair == Spec /\ WF_vars(Next)

\* C3: solve eventually returns, and every ac3 call that entered its loop
\* leaves it.
C3_Termination == <>(pc = "done") /\ ((pc = "ac3_loop") ~> (pc = "ac3_return"))

\* C3 witness: solve returned None after a search that went three calls deep.
C3_Witness == pc = "done" /\ result = None /\ Len(assignment) >= 2

EmptyAtStart == \E v \in DOMAIN domains0 : domains0[v] = {}

\* C4: if some domain was empty when solve called backtrack, solve returns
\* None and nothing is raised.
C4_EmptyDomainUnsat ==
  (pc \in {"done", "raised"} /\ EmptyAtStart) => (pc = "done" /\ result = None)

\* C4 witness: solve returned with a domain that node consistency left
\* non-empty and the global ac3 emptied.
C4_Witness ==
  /\ pc = "done"
  /\ \E v \in DOMAIN domains0 :
       domains0[v] = {} /\ enforce_node_consistency(InitDomains(crossword))[v] # {}

ArcConsistent(doms) ==
  \A x \in DOMAIN doms : \A y \in neighbors(x) :
    LET o == crossword.overlaps[<<x, y>>]
    IN  \A wx \in doms[x] : \E wy \in doms[y] : wx[o[1] + 1] = wy[o[2] + 1]

\* C5: when ac3 called without a seed list returns True, every word of every
\* slot has a compatible word in each neighbor's domain.
C5_Ac3FixedPoint ==
  (pc = "ac3_return" /\ arcsArg = None /\ inference_result) => ArcConsistent(domains)

\* C5 witness: the global ac3 returned True having pruned a domain of a slot
\* with two neighbors, and no domain is empty.
C5_Witness ==
  /\ pc = "ac3_return" /\ arcsArg = None /\ inference_result
  /\ \A v \in DOMAIN domains : domains[v] # {}
  /\ \E v \in DOMAIN domains :
       /\ Cardinality(neighbors(v)) = 2
       /\ domains[v] # enforce_node_consistency(InitDomains(crossword))[v]

\* C6: whenever ac3 returns True no slot has an empty domain.
C6_NoSuccessWithEmptyDomain ==
  (pc = "ac3_return" /\ inference_result) => \A v \in DOMAIN domains : domains[v] # {}

\* C8: enforce_node_consistency leaves in every slot's domain exactly the
\* words that were there and have the slot's length.
C8_NodeConsistency ==
  [][pc = "solve" =>
       domains' = [v \in DOMAIN domains |->
                     {w \in domains[v] : Len(w) = crossword.length[v]}]]_vars

\* C8 witness: node consistency has run and removed some but not all words of
\* a slot.
C8_Witness ==
  /\ pc = "ac3_call" /\ arcsArg = None
  /\ \E v \in DOMAIN domains : domains[v] # crossword.words /\ domains[v] # {}

\* C10: a supplied seed list is the initial worklist, exactly; all arcs are
\* used only when no list is given.
C10_Seeding ==
  [][pc = "ac3_call" =>
       IF arcsArg = None THEN arcs' \in ArcListsFrom(1) ELSE arcs' = arcsArg[1]]_vars

\* C11: in backtrack, every time the for loop is about to try its next
\* candidate or to return None, the assignment holds exactly the entries it
\* held when the call was entered; and every call of backtrack is entered
\* with exactly the slots chosen on the current search path assigned.
C11_UndoOnBacktrack ==
  /\ pc = "backtrack_loop" => assignment = Top.entry
  /\ pc = "backtrack_call" =>
       AssignedKeys(assignment) = {stack[i].variable : i \in DOMAIN stack}

\* C15: no revise, in the global ac3 or in an ac3 call of backtrack, removes
\* from a slot's domain the word the slot has in a solution: every solution
\* lies within the domains throughout solve.
C15_PruningPreservesSolutions ==
  \A f \in Solutions : \A v \in crossword.variables : f[v] \in domains[v]

\* C15 witness: an ac3 call made by backtrack has returned, in a problem that
\* has a solution and in which pruning removed a word of the right length.
C15_Witness ==
  /\ Solutions # {}
  /\ pc = "ac3_return"
  /\ stack # <<>>
  /\ \E v \in crossword.variables :
       domains[v] # enforce_node_consistency(InitDomains(crossword))[v]

\* C16: in solve, if the ac3() call of line 93 returned True, every ac3 call
\* made by backtrack returns True and the domains stay, from the call of
\* backtrack to its return, what they were when backtrack was called.
C16_InferenceNoOp ==
  ret = Some(TRUE) =>
    /\ domains = domains0
    /\ pc = "ac3_return" => inference_result

\* C16 witness: two calls deep in the search, an ac3 call of backtrack has
\* returned after revising a neighbor against a slot that is assigned and
\* whose domain has words with different letters at the overlap.
C16_Witness ==
  /\ ret = Some(TRUE)
  /\ pc = "ac3_return"
  /\ Len(stack) >= 2
  /\ arc # None
  /\ arc[2] = Top.variable
  /\ crossword.overlaps[arc] # None
  /\ \E w1, w2 \in domains[Top.variable] :
       w1[crossword.overlaps[arc][2] + 1] # w2[crossword.overlaps[arc][2] + 1]

\* A candidate's branch has just failed: its ac3 call returned False, or the
\* recursive call made for it returned None.
BranchFailed ==
  /\ stack # <<>>
  /\ \/ pc = "ac3_return" /\ ~inference_result
     \/ pc = "backtrack_return" /\ retval = None

(***************************************************************************)
(* revise called on its own: any two distinct slots, on any domain store   *)
(* that node consistency can have produced and pruning have narrowed.      *)
(***************************************************************************)
NodeConsistentStores(cw) ==
  {d \in [cw.variables -> SUBSET cw.words] :
     \A v \in cw.variables : \A w \in d[v] : Len(w) = cw.length[v]}

InitRevise ==
  /\ crossword \in Crosswords
  /\ domains \in NodeConsistentStores(crossword)
  /\ assignment = <<>>
  /\ pc = "revise_call"
  /\ arcsArg = None
  /\ arcs = <<>>
  /\ arc = None
  /\ inference_result = FALSE
  /\ stack = <<>>
  /\ retval = None
  /\ result = None
  /\ ret = None
  /\ domains0 = InitDomains(crossword)

ReviseCall ==
  /\ pc = "revise_call"
  /\ \E x, y \in crossword.variables :
       /\ x # y
       /\ arc' = <<x, y>>
       /\ domains' = revise(domains, x, y).domains
       /\ ret' = Some(revise(domains, x, y).revision)
  /\ pc' = "revise_return"
  /\ UNCHANGED <<crossword, assignment, arcsArg, arcs, inference_result, stack,
                 retval, result, domains0>>

NextRevise == ReviseCall

SpecRevise == InitRevise /\ [][NextRevise]_vars

\* The words of x's domain with no compatible word in y's domain.
Unsupported(doms, x, y) ==
  LET o == crossword.overlaps[<<x, y>>]
  IN  {wx \in doms[x] : \A wy \in doms[y] : wx[o[1] + 1] # wy[o[2] + 1]}

\* C7: revise(x, y) without an overlap changes nothing and returns False;
\* with an overlap it removes from x's domain exactly the words without a
\* compatible word in y's domain, changes no other domain, and returns True
\* exactly when it removed a word.
C7_Revise ==
  [][pc = "revise_call" =>
       LET x == arc'[1]
           y == arc'[2]
       IN  IF crossword.overlaps[<<x, y>>] = None
           THEN domains' = domains /\ ret' = Some(FALSE)
           ELSE /\ domains' = [domains EXCEPT ![x] = @ \ Unsupported(domains, x, y)]
                /\ ret' = Some(Unsupported(domains, x, y) # {})]_vars

\* C7 witness: revise returned True having removed a word of x and kept another.
C7_Witness ==
  /\ pc = "revise_return"
  /\ ret = Some(TRUE)
  /\ domains[arc[1]] # {}
  /\ crossword.overlaps[arc] # None

(***************************************************************************)
(* backtrack called on its own with an empty assignment, on any domain     *)
(* store whose words have their slots' lengths.                            *)
(***************************************************************************)
InitBacktrack ==
  /\ crossword \in Crosswords
  /\ domains \in NodeConsistentStores(crossword)
  /\ assignment = <<>>
  /\ pc = "backtrack_call"
  /\ arcsArg = None
  /\ arcs = <<>>
  /\ arc = None
  /\ inference_result = FALSE
  /\ stack = <<>>
  /\ retval = None
  /\ result = None
  /\ ret = None
  /\ domains0 = domains

\* The outermost call of backtrack returned to its caller.
BacktrackReturn ==
  /\ pc = "backtrack_return"
  /\ stack = <<>>
  /\ result' = retval
  /\ pc' = "done"
  /\ UNCHANGED <<crossword, domains, assignment, arcsArg, arcs, arc,
                 inference_result, stack, retval, ret, domains0>>

NextBacktrack ==
  \/ BacktrackEnter
  \/ BacktrackLoop
  \/ Ac3Begin
  \/ Ac3Iterate
  \/ Ac3Exit
  \/ BacktrackInferred
  \/ BacktrackResume
  \/ BacktrackReturn

SpecBacktrack == InitBacktrack /\ [][NextBacktrack]_vars

\* C12: when the branch of a candidate word has failed and the slot has a
\* next candidate to try, the domains are what they were before the ac3 call
\* made for the failed candidate.
C12_SiblingDomains ==
  (BranchFailed /\ Top.idx < Len(Top.values)) => domains = Top.before

(***************************************************************************)
(* consistent called on its own: any assignment of vocabulary words to     *)
(* distinct slots, in any insertion order.                                 *)
(***************************************************************************)
Assignments(cw) ==
  UNION {{a \in [1..k -> cw.variables \X cw.words] :
            \A i, j \in 1..k : i # j => a[i][1] # a[j][1]}
         : k \in 0..Cardinality(cw.variables)}

InitConsistent ==
  /\ crossword \in Crosswords
  /\ domains = InitDomains(crossword)
  /\ assignment \in Assignments(crossword)
  /\ pc = "consistent_call"
  /\ arcsArg = None
  /\ arcs = <<>>
  /\ arc = None
  /\ inference_result = FALSE
  /\ stack = <<>>
  /\ retval = None
  /\ result = None
  /\ ret = None
  /\ domains0 = InitDomains(crossword)

ConsistentCall ==
  /\ pc = "consistent_call"
  /\ \E verdict \in consistent(assignment) : ret' = Some(verdict)
  /\ pc' = "consistent_return"
  /\ UNCHANGED <<crossword, domains, assignment, arcsArg, arcs, arc,
                 inference_result, stack, retval, result, domains0>>

NextConsistent == ConsistentCall

SpecConsistent == InitConsistent /\ [][NextConsistent]_vars

RepeatedWord(asg) == \E i, j \in DOMAIN asg : i # j /\ asg[i][2] = asg[j][2]

WrongLength(asg) == \E i \in DOMAIN asg : Len(asg[i][2]) # crossword.length[asg[i][1]]

\* Two assigned neighbors whose words both reach their overlap offsets and
\* differ there.
OverlapMismatch(asg) ==
  \E i, j \in DOMAIN asg :
    LET o == IF i = j THEN None ELSE crossword.overlaps[<<asg[i][1], asg[j][1]>>]
    IN  /\ o # None
        /\ o[1] < Len(asg[i][2])
        /\ o[2] < Len(asg[j][2])
        /\ asg[i][2][o[1] + 1] # asg[j][2][o[2] + 1]

\* C9: consistent returns False for an assignment with a repeated word, a
\* word of the wrong length or an overlap mismatch, and True for every other.
C9_ConsistentExact ==
  pc = "consistent_return" =>
    ret = Some(IF RepeatedWord(assignment) \/ WrongLength(assignment)
                    \/ OverlapMismatch(assignment)
               THEN "False" ELSE "True")

(***************************************************************************)
(* order_domain_values called on its own: any slot, any assignment of      *)
(* vocabulary words to distinct slots, on the domains node consistency     *)
(* leaves.  ret records the call: the slot passed and the list returned.   *)
(***************************************************************************)
InitOrder ==
  /\ crossword \in Crosswords
  /\ domains = enforce_node_consistency(InitDomains(crossword))
  /\ assignment \in Assignments(crossword)
  /\ pc = "order_call"
  /\ arcsArg = None
  /\ arcs = <<>>
  /\ arc = None
  /\ inference_result = FALSE
  /\ stack = <<>>
  /\ retval = None
  /\ result = None
  /\ ret = None
  /\ domains0 = InitDomains(crossword)

OrderCall ==
  /\ pc = "order_call"
  /\ \E var \in crossword.variables :
       \E values \in order_domain_values(domains, var, assignment) :
         ret' = Some([var |-> var, values |-> values])
  /\ pc' = "order_return"
  /\ UNCHANGED <<crossword, domains, assignment, arcsArg, arcs, arc,
                 inference_result, stack, retval, result, domains0>>

NextOrder == OrderCall

SpecOrder == InitOrder /\ [][NextOrder]_vars

\* The number of words that `value` for var rules out in the domains of the
\* neighbors of var that are not in asg.
RuledOut(doms, var, value, asg) ==
  Cardinality({p \in (neighbors(var) \ AssignedKeys(asg)) \X crossword.words :
                 LET o == crossword.overlaps[<<var, p[1]>>]
                 IN  p[2] \in doms[p[1]] /\ value[o[1] + 1] # p[2][o[2] + 1]})

\* C13: the list order_domain_values returns holds every word of the slot's
\* domain exactly once, in ascending order of the number of words ruled out
\* in the domains of the unassigned neighbors only.
C13_LeastConstraining ==
  pc = "order_return" =>
    LET var == ret[1].var
        values == ret[1].values
    IN  /\ Len(values) = Cardinality(domains[var])
        /\ {values[i] : i \in DOMAIN values} = domains[var]
        /\ \A i, j \in DOMAIN values :
             i < j => RuledOut(domains, var, values[i], assignment)
                        <= RuledOut(domains, var, values[j], assignment)

(***************************************************************************)
(* select_unassigned_variable called on its own: any domain store whose    *)
(* words have their slots' lengths, and any assignment of some of the      *)
(* slots to words of their domains (select reads the keys of the           *)
(* assignment only, so the entries are taken in slot order).               *)
(***************************************************************************)
\* The dict with the entries of the function f, inserted in slot order.
AssignmentOf(f) ==
  LET keys == CHOOSE s \in Orders(DOMAIN f) :
                \A i, j \in DOMAIN s : i < j => s[i] < s[j]
  IN  [i \in DOMAIN keys |-> <<keys[i], f[keys[i]]>>]

InitSelect ==
  /\ crossword \in Crosswords
  /\ domains \in NodeConsistentStores(crossword)
  /\ \E K \in SUBSET crossword.variables :
       \E f \in [K -> crossword.words] :
         /\ \A v \in K : f[v] \in domains[v]
         /\ assignment = AssignmentOf(f)
  /\ pc = "select_call"
  /\ arcsArg = None
  /\ arcs = <<>>
  /\ arc = None
  /\ inference_result = FALSE
  /\ stack = <<>>
  /\ retval = None
  /\ result = None
  /\ ret = None
  /\ domains0 = domains

SelectCall ==
  /\ pc = "select_call"
  /\ ret' = Some(select_unassigned_variable(domains, assignment))
  /\ pc' = "select_return"
  /\ UNCHANGED <<crossword, domains, assignment, arcsArg, arcs, arc,
                 inference_result, stack, retval, result, domains0>>

NextSelect == SelectCall

SpecSelect == InitSelect /\ [][NextSelect]_vars

\* C14: select_unassigned_variable changes neither the domains nor the
\* assignment; when a slot is unassigned it returns an unassigned slot such
\* that no unassigned slot has a smaller domain and none with a domain of the
\* same size has more neighbors; it returns None only when every slot is
\* assigned.
C14_MinimumRemainingValues ==
  [][pc = "select_call" =>
       LET unassigned == crossword.variables \ AssignedKeys(assignment)
           returned == ret'[1]
       IN  /\ domains' = domains
           /\ assignment' = assignment
           /\ returned = None => unassigned = {}
           /\ unassigned # {} =>
                /\ returned # None
                /\ returned[1] \in unassigned
                /\ \A u \in unassigned :
                     /\ Cardinality(domains[u]) >= Cardinality(domains[returned[1]])
                     /\ Cardinality(domains[u]) = Cardinality(domains[returned[1]])
                          => Cardinality(neighbors(u))
                               <= Cardinality(neighbors(returned[1]))]_vars

\* C14 witness: with a slot assigned, the slot returned has a domain as
\* small as, and more neighbors than, an unassigned slot that comes before
\* it among the keys of domains.
C14_Witness ==
  /\ pc = "select_return"
  /\ assignment # <<>>
  /\ ret[1] # None
  /\ \E u \in crossword.variables \ AssignedKeys(assignment) :
       /\ u < ret[1][1]
       /\ Cardinality(domains[u]) = Cardinality(domains[ret[1][1]])
       /\ Cardinality(neighbors(u)) < Cardinality(neighbors(ret[1][1]))

====
